---------------------------- MODULE Spec2Model ----------------------------
(***************************************************************************)
(* Model of src/main.py: the tournament scraper (participants and events), *)
(* its file cache, its two background loops and its read API.              *)
(*                                                                         *)
(* Strings are TLA+ strings; Len, Head, Tail, SubSeq and \o act on them    *)
(* character by character, so name normalisation, keyword search and the   *)
(* dedup key are computed as the code computes them.                       *)
(***************************************************************************)
EXTENDS Integers, Sequences, FiniteSets, TLC

(***************************************************************************)
(* Bounds of the model.                                                    *)
(***************************************************************************)
\* longest page of the batch specification (number of feed items)
MaxItems == 3
\* number of clock advances a behaviour may take
MaxTicks == 1

(***************************************************************************)
(* Characters.                                                             *)
(***************************************************************************)
UpperChars == "ABCDEFGHIJKLMNOPQRSTUVWXYZ"
LowerChars == "abcdefghijklmnopqrstuvwxyz"
DigitChars == "0123456789"
\* the characters timestamps are made of, in code-point order
OrderedChars == "+-.0123456789:T"

CharAt(s, i) == SubSeq(s, i, i)

CharsOf(s) == {CharAt(s, i) : i \in 1..Len(s)}

UpperSet == CharsOf(UpperChars)

\* the lowercase letter of each uppercase letter
LowerOf ==
    [c \in UpperSet |->
        CharAt(LowerChars, CHOOSE i \in 1..Len(UpperChars) : CharAt(UpperChars, i) = c)]

\* str.lower() on one character
LowerChar(c) == IF c \in UpperSet THEN LowerOf[c] ELSE c

\* str.lower()
RECURSIVE Lower(_)
Lower(s) == IF s = "" THEN "" ELSE LowerChar(Head(s)) \o Lower(Tail(s))

\* the characters of the regular expression class \w
WordChars == UpperSet \cup CharsOf(LowerChars) \cup CharsOf(DigitChars) \cup {"_"}

IsWordChar(c) == c \in WordChars

\* s without its leading run of \W characters
RECURSIVE DropNonWord(_)
DropNonWord(s) ==
    IF s = "" \/ IsWordChar(Head(s)) THEN s ELSE DropNonWord(Tail(s))

\* re.sub(r'\W+', '_', s)
RECURSIVE SubNonWord(_)
SubNonWord(s) ==
    IF s = "" THEN ""
    ELSE IF IsWordChar(Head(s)) THEN Head(s) \o SubNonWord(Tail(s))
    ELSE "_" \o SubNonWord(DropNonWord(s))

RECURSIVE LStrip(_)
LStrip(s) == IF s # "" /\ Head(s) = "_" THEN LStrip(Tail(s)) ELSE s

RECURSIVE RStrip(_)
RStrip(s) ==
    IF s # "" /\ CharAt(s, Len(s)) = "_" THEN RStrip(SubSeq(s, 1, Len(s) - 1)) ELSE s

\* str.strip('_')
Strip(s) == RStrip(LStrip(s))

normalize_boat_name(name) == Strip(SubNonWord(Lower(name)))

\* kw in s
Contains(s, kw) ==
    \E i \in 1..(Len(s) - Len(kw) + 1) : SubSeq(s, i, i + Len(kw) - 1) = kw

\* the place of each timestamp character in code-point order
RankOf ==
    [c \in CharsOf(OrderedChars) |->
        CHOOSE i \in 1..Len(OrderedChars) : CharAt(OrderedChars, i) = c]

CharRank(c) == RankOf[c]

\* a < b for Python strings (code-point lexicographic order)
RECURSIVE StrLess(_, _)
StrLess(a, b) ==
    IF b = "" THEN FALSE
    ELSE IF a = "" THEN TRUE
    ELSE IF Head(a) = Head(b) THEN StrLess(Tail(a), Tail(b))
    ELSE CharRank(Head(a)) < CharRank(Head(b))


(***************************************************************************)
(* The event pipeline of scrape_events.                                    *)
(*                                                                         *)
(* A feed item is one element matched by the item selector:                *)
(*   tags  the sub-elements it has, among "time" (p.pull-right),           *)
(*         "name" (h4.montserrat) and "desc" (p > strong)                  *)
(*   time, name, desc  the text of each                                    *)
(***************************************************************************)
ItemTags == {"time", "name", "desc"}

\* dateutil's parse of a clock time on the scrape date, year replaced by the
\* current year, as isoformat(); a text outside the table raises
ParsedTimes ==
    ("9:00 AM" :> "2025-06-14T09:00:00") @@
    ("2:35 PM" :> "2025-06-14T14:35:00") @@
    ("11:59 PM" :> "2025-06-14T23:59:00")

RECURSIVE RemoveAt(_)
\* str.replace("@", "")
RemoveAt(s) ==
    IF s = "" THEN ""
    ELSE IF Head(s) = "@" THEN RemoveAt(Tail(s))
    ELSE Head(s) \o RemoveAt(Tail(s))

RECURSIVE LStripSpace(_)
LStripSpace(s) == IF s # "" /\ Head(s) = " " THEN LStripSpace(Tail(s)) ELSE s

RECURSIVE RStripSpace(_)
RStripSpace(s) ==
    IF s # "" /\ CharAt(s, Len(s)) = " "
    THEN RStripSpace(SubSeq(s, 1, Len(s) - 1))
    ELSE s

\* time_tag.get_text(strip=True).replace("@", "").strip()
RawTime(text) == RStripSpace(LStripSpace(RemoveAt(RStripSpace(LStripSpace(text)))))

TimeParses(raw) == raw \in DOMAIN ParsedTimes

ParseTime(raw) == ParsedTimes[raw]

\* the if/elif chain on desc.lower()
ClassifyEvent(desc) ==
    LET lowered == Lower(desc)
    IN  IF Contains(lowered, "released") THEN "Released"
        ELSE IF Contains(lowered, "boated") THEN "Boated"
        ELSE IF Contains(lowered, "pulled hook") THEN "Pulled Hook"
        ELSE IF Contains(lowered, "wrong species") THEN "Wrong Species"
        ELSE "Other"

\* f"{uid}_{event_type}_{ts}"
DedupKey(uid, event_type, ts) == uid \o "_" \o event_type \o "_" \o ts

\* a mutant of IsDuplicate: the seen set is never consulted
IsDuplicate_NeverSeen(key, seen) == FALSE

\* key in seen
IsDuplicate(key, seen) == key \in seen

\* {p["uid"]: p for p in json.load(f)}: the last record of a uid wins
RECURSIVE ParticipantsByUid(_)
ParticipantsByUid(list) ==
    IF list = <<>> THEN <<>>
    ELSE LET rest == ParticipantsByUid(SubSeq(list, 1, Len(list) - 1))
             p    == list[Len(list)]
         IN  [u \in (DOMAIN rest) \cup {p.uid} |-> IF u = p.uid THEN p ELSE rest[u]]

\* a mutant of EventBoat: the roster is not consulted
EventBoat_FeedName(boat, uid, participants) == boat

\* the boat name of an event: the roster's spelling when the uid is known
EventBoat(boat, uid, participants) ==
    IF uid \in DOMAIN participants THEN participants[uid].boat ELSE boat

\* a mutant of SkipDuplicate: the duplicate takes the place of the event kept
SkipDuplicate_Replace(events, e) ==
    [k \in 1..Len(events) |->
        IF /\ events[k].uid = e.uid
           /\ events[k].event = e.event
           /\ events[k].timestamp = e.timestamp
        THEN e ELSE events[k]]

\* continue: the events collected so far stay as they are
SkipDuplicate(events, e) == events

\* the loop over the matched elements, from the accumulated events and seen
RECURSIVE ExtractEvents(_, _, _, _)
ExtractEvents(page, participants, events, seen) ==
    IF page = <<>> THEN events
    ELSE
      LET article == Head(page)
          rest    == Tail(page)
      IN
      IF ~(ItemTags \subseteq article.tags)
      THEN ExtractEvents(rest, participants, events, seen)
      ELSE IF ~TimeParses(RawTime(article.time))
      THEN ExtractEvents(rest, participants, events, seen)
      ELSE
        LET ts         == ParseTime(RawTime(article.time))
            uid        == normalize_boat_name(article.name)
            boat       == EventBoat(article.name, uid, participants)
            event_type == ClassifyEvent(article.desc)
            key        == DedupKey(uid, event_type, ts)
            e          == [timestamp |-> ts, event |-> event_type, boat |-> boat,
                           uid |-> uid, details |-> article.desc]
        IN
        IF IsDuplicate(key, seen)
        THEN ExtractEvents(rest, participants, SkipDuplicate(events, e), seen)
        ELSE ExtractEvents(rest, participants, Append(events, e), seen \cup {key})

\* e placed after every element whose timestamp is not greater (stable)
RECURSIVE InsertByTimestamp(_, _)
InsertByTimestamp(sorted, e) ==
    IF sorted = <<>> THEN <<e>>
    ELSE IF StrLess(e.timestamp, Head(sorted).timestamp) THEN <<e>> \o sorted
    ELSE <<Head(sorted)>> \o InsertByTimestamp(Tail(sorted), e)

RECURSIVE SortFrom(_, _)
SortFrom(sorted, events) ==
    IF events = <<>> THEN sorted
    ELSE SortFrom(InsertByTimestamp(sorted, Head(events)), Tail(events))

\* a mutant of SortByTimestamp: the list is left in page order
SortByTimestamp_PageOrder(events) == events

\* events.sort(key=lambda e: e["timestamp"])
SortByTimestamp(events) == SortFrom(<<>>, events)

\* the list scrape_events persists for a parsed page
ScrapedEvents(page, participants) ==
    SortByTimestamp(ExtractEvents(page, participants, <<>>, {}))

(***************************************************************************)
(* The participant pipeline of scrape_participants.                        *)
(*                                                                         *)
(* A card is one article.post.format-image element:                        *)
(*   tags  the sub-elements it has, among "name" (h2.post-title) and       *)
(*         "type" (ul.post-meta li)                                        *)
(*   name, type  the text of each                                          *)
(*   src   the src attribute of its img, "" when it has no img or no src   *)
(* A dict is modelled as the sequence of its values in insertion order;    *)
(* every participant dict is keyed by the uid of its values.               *)
(***************************************************************************)
DefaultImage == "/static/images/boats/default.jpg"

\* f"/static/images/boats/{uid}.jpg"
ImagePathOf(uid) == "/static/images/boats/" \o uid \o ".jpg"

HasUid(dict, uid) == \E i \in 1..Len(dict) : dict[i].uid = uid

GetByUid(dict, uid) == dict[CHOOSE i \in 1..Len(dict) : dict[i].uid = uid]

\* dict[p["uid"]] = p: a known key keeps its place, a new key goes last
SetByUid(dict, p) ==
    IF HasUid(dict, p.uid)
    THEN [i \in 1..Len(dict) |-> IF dict[i].uid = p.uid THEN p ELSE dict[i]]
    ELSE Append(dict, p)

\* existing_participants as read from the participants file
RECURSIVE DictFrom(_, _)
DictFrom(dict, list) ==
    IF list = <<>> THEN dict ELSE DictFrom(SetByUid(dict, Head(list)), Tail(list))

ExistingParticipants(file) == IF file.state = "absent" THEN <<>> ELSE DictFrom(<<>>, file.data)

\* existing_participants.get(uid, {}).get("image_path", "")
ExistingImagePath(existing, uid) ==
    IF HasUid(existing, uid) THEN GetByUid(existing, uid).image_path ELSE ""

\* force_download; a local file exists when its path is in disk
ForceDownload(existing, uid, disk) ==
    \/ ~HasUid(existing, uid)
    \/ ExistingImagePath(existing, uid) = ""
    \/ ExistingImagePath(existing, uid) \notin disk

\* the loop over the cards: [updated, seen_boats, tasks] after the cards
RECURSIVE ExtractParticipants(_, _, _, _)
ExtractParticipants(cards, existing, disk, acc) ==
    IF cards = <<>> THEN acc
    ELSE
      LET article == Head(cards)
          rest    == Tail(cards)
      IN
      IF "name" \notin article.tags
      THEN ExtractParticipants(rest, existing, disk, acc)
      ELSE IF Contains(article.name, ",") \/ Lower(article.name) \in acc.seen_boats
      THEN ExtractParticipants(rest, existing, disk, acc)
      ELSE
        LET boat_type == IF "type" \in article.tags THEN article.type ELSE ""
            uid       == normalize_boat_name(article.name)
            force     == ForceDownload(existing, uid, disk)
            queued    == force /\ article.src # ""
            image_path ==
                IF ~force THEN ExistingImagePath(existing, uid)
                ELSE IF queued THEN ""
                ELSE DefaultImage
        IN
        ExtractParticipants(rest, existing, disk,
            [updated |-> SetByUid(acc.updated,
                            [uid |-> uid, boat |-> article.name, type |-> boat_type,
                             image_path |-> image_path]),
             seen_boats |-> acc.seen_boats \cup {Lower(article.name)},
             tasks |-> IF queued
                       THEN Append(acc.tasks, [uid |-> uid, boat |-> article.name,
                                               url |-> article.src])
                       ELSE acc.tasks])

\* a mutant of cache_boat_image: a failed download returns no path
cache_boat_image_NoDefault(boat_name, image_url, up) ==
    IF image_url \in up THEN ImagePathOf(normalize_boat_name(boat_name)) ELSE ""

\* cache_boat_image: the path returned for a download that answers 200 (the
\* url is in up) and for one that fails
cache_boat_image(boat_name, image_url, up) ==
    IF image_url \in up THEN ImagePathOf(normalize_boat_name(boat_name)) ELSE DefaultImage

\* the loop over the futures: each result becomes its uid's image_path
RECURSIVE ApplyDownloads(_, _, _)
ApplyDownloads(updated, tasks, up) ==
    IF tasks = <<>> THEN updated
    ELSE
      LET task == Head(tasks)
          p    == GetByUid(updated, task.uid)
      IN ApplyDownloads(
             SetByUid(updated, [p EXCEPT !.image_path = cache_boat_image(task.boat, task.url, up)]),
             Tail(tasks), up)

\* the image files on disk after the downloads
DiskAfterDownloads(disk, tasks, up) ==
    disk \cup {ImagePathOf(normalize_boat_name(tasks[i].boat)) :
                  i \in {j \in 1..Len(tasks) : tasks[j].url \in up}}

\* updated_list for a parsed page
ScrapedParticipants(cards, existing, disk, up) ==
    LET acc == ExtractParticipants(cards, existing, disk,
                   [updated |-> <<>>, seen_boats |-> {}, tasks |-> <<>>])
    IN  ApplyDownloads(acc.updated, acc.tasks, up)

DownloadTasks(cards, existing, disk) ==
    ExtractParticipants(cards, existing, disk,
        [updated |-> <<>>, seen_boats |-> {}, tasks |-> <<>>]).tasks

(***************************************************************************)
(* The world outside the process: the settings directory, the feed and     *)
(* roster pages, the image hosts, the file system's mkdir, the clock.      *)
(***************************************************************************)
\* time.sleep(90) of event_loop, in seconds
EventSleep == 90
\* time.sleep(21600) of participant_loop, in seconds
ParticipantSleep == 21600
\* the freshness TTL scrape_events passes to is_cache_fresh, in minutes
EventTTL == 2
\* the freshness TTL scrape_participants passes to is_cache_fresh, in minutes
ParticipantTTL == 1440

\* os.environ.get("TOURNAMENT", "Big Rock") with the variable unset
get_current_tournament == "Big Rock"

\* settings.json as served: the entries of the object, in document order
SettingsJson ==
    << [name |-> "Big Rock", object |-> TRUE,
        urls |-> ("participants" :> "https://bigrock/participants") @@
                 ("events" :> "https://bigrock/activities")],
       [name |-> "KWLA", object |-> TRUE,
        urls |-> ("participants" :> "https://kwla/participants") @@
                 ("events" :> "https://kwla/activities")],
       [name |-> "Juniors", object |-> TRUE,
        urls |-> ("participants" :> "https://juniors/participants")],
       [name |-> "version", object |-> FALSE, urls |-> [k \in {} |-> ""]] >>

SettingsOk == [ok |-> TRUE, entries |-> SettingsJson]

\* settings.json while the current tournament has no participants URL
SettingsNoRoster ==
    [ok |-> TRUE,
     entries |-> << [name |-> "Big Rock", object |-> TRUE,
                     urls |-> ("events" :> "https://bigrock/activities")] >>
                 \o Tail(SettingsJson)]

\* the request for settings.json, or its JSON, fails
SettingsDown == [ok |-> FALSE, entries |-> <<>>]

\* the tournaments that own a cache directory
Tournaments == {"Big Rock", "KWLA"}

Kinds == {"participants", "events"}

EventUrls == {"https://bigrock/activities", "https://kwla/activities"}

ImageUrls == {"https://img/reel.jpg"}

FeedItem(time, name, desc) == [tags |-> ItemTags, time |-> time, name |-> name, desc |-> desc]

Card(name, type, src) == [tags |-> {"name", "type"}, name |-> name, type |-> type, src |-> src]

\* what a page fetch can return: "" (ok = FALSE) or a page
EmptyHtml == [ok |-> FALSE, items |-> <<>>]

Html(page) == [ok |-> TRUE, items |-> page]

\* a feed page out of time order, whose third item repeats the first catch
FeedPage ==
    << FeedItem("@ 2:35 PM", "REEL-DEAL", "Blue Marlin Released"),
       FeedItem("9:00 AM", "Wave Runner", "Boated a tuna"),
       FeedItem("2:35 PM", "Reel Deal", "released a blue marlin") >>

RosterPage ==
    << Card("Reel Deal", "60 Viking", "https://img/reel.jpg"),
       Card("Wave Runner", "54 Hatteras", "") >>

\* the feed items and the cards the pages of BatchWorld are made of
BatchItems ==
    { FeedItem("@ 2:35 PM", "REEL-DEAL", "Blue Marlin Released"),
      FeedItem("2:35 PM", "Reel Deal", "released a blue marlin"),
      FeedItem("9:00 AM", "Wave Runner", "Boated a tuna"),
      FeedItem("soon", "Wave Runner", "Wrong species"),
      [tags |-> {"time", "name"}, time |-> "9:00 AM", name |-> "Reel Deal", desc |-> ""] }

\* the roster pages of StartupWorld: the roster, the roster without its first
\* boat, a roster that repeats a boat in lowercase and lists two anglers, a
\* roster with two spellings of one uid
RosterPages ==
    { RosterPage,
      << Card("Wave Runner", "54 Hatteras", "") >>,
      << Card("Reel Deal", "60 Viking", "https://img/reel.jpg"),
         Card("reel deal", "Angler", ""),
         Card("Smith, Jones", "Anglers", "") >>,
      << Card("Reel Deal", "60 Viking", ""),
         Card("Reel-Deal", "Charter", "") >> }

\* the sequences over S of length at most n
SeqsUpTo(S, n) == UNION {[1..k -> S] : k \in 0..n}

(***************************************************************************)
(* A world is what the outside can answer during a behaviour:              *)
(*   settings  the answers to a GET of settings.json                       *)
(*   makedirs  whether os.makedirs can succeed (TRUE) or raise (FALSE)     *)
(*   feeds     for each events URL, the answers to a page fetch            *)
(*   rosters   the answers to a fetch of the participants page             *)
(*   up        the sets of image URLs that can answer 200 together         *)
(***************************************************************************)
\* every kind of failure, one page of each kind
SmallWorld ==
    [settings |-> {SettingsOk, SettingsDown},
     makedirs |-> BOOLEAN,
     feeds    |-> [u \in EventUrls |-> {EmptyHtml, Html(FeedPage)}],
     rosters  |-> {EmptyHtml, Html(RosterPage)},
     up       |-> SUBSET ImageUrls]

\* the small world as the Read API meets it: the cache directories are there
ServedWorld == [SmallWorld EXCEPT !.makedirs = {TRUE}]

\* a startup at which settings and mkdir work: several rosters, one feed page
StartupWorld ==
    [settings |-> {SettingsOk},
     makedirs |-> {TRUE},
     feeds    |-> [u \in EventUrls |-> {Html(FeedPage)}],
     rosters  |-> {Html(page) : page \in RosterPages},
     up       |-> SUBSET ImageUrls]

\* afterwards: every short feed page for the current tournament
BatchWorld ==
    [settings |-> {SettingsOk},
     makedirs |-> {TRUE},
     feeds    |-> [u \in EventUrls |->
                     IF u = "https://bigrock/activities"
                     THEN {EmptyHtml} \cup {Html(page) : page \in SeqsUpTo(BatchItems, MaxItems)}
                     ELSE {Html(FeedPage)}],
     rosters  |-> {Html(page) : page \in RosterPages},
     up       |-> SUBSET ImageUrls]

\* a fleet whose boats all have a picture, each on a host of its own
FleetImageUrls == {"https://img/reel.jpg", "https://img/wave.jpg"}

\* the roster pages of a fleet over a season: both boats, one boat gone, a
\* boat listed under two spellings
FleetPages ==
    { << Card("Reel Deal", "60 Viking", "https://img/reel.jpg"),
         Card("Wave Runner", "54 Hatteras", "https://img/wave.jpg") >>,
      << Card("Wave Runner", "54 Hatteras", "https://img/wave.jpg") >>,
      << Card("Reel Deal", "60 Viking", "https://img/reel.jpg"),
         Card("REEL-DEAL", "Charter", "") >> }

\* the roster side of the outside: settings and roster fetches can fail, each
\* image host can be down
RosterWorld ==
    [settings |-> {SettingsOk, SettingsNoRoster, SettingsDown},
     makedirs |-> {TRUE},
     feeds    |-> [u \in EventUrls |-> {Html(FeedPage)}],
     rosters  |-> {EmptyHtml} \cup {Html(page) : page \in FleetPages},
     up       |-> SUBSET FleetImageUrls]

\* the same world for a request of the Read API, whose cache directory may
\* be out of reach
ReadWorld == [RosterWorld EXCEPT !.makedirs = BOOLEAN]

\* boat names as feeds spell them: case, punctuation, a possessive, an
\* underscore, a digit
FeedNames ==
    {"Reel Deal", "REEL-DEAL", "Reel Deal's", "reel_deal", "Wave Runner!", "O'Brien #7"}

\* descriptions as feeds word them: each keyword alone, in another case,
\* several keywords at once, none
FeedDescs ==
    {"Blue Marlin Released", "Boated a tuna", "Headed to scales", "HEADED TO SCALES",
     "Pulled hook", "Wrong Species", "Hooked up", "Released after pulled hook",
     "Boated, wrong species", "pulled hook on a wrong species",
     "Headed to scales, pulled hook"}

\* the wording side of the outside: the feed of the current tournament shows
\* one catch, under any of the names and any of the descriptions
WordingWorld ==
    [settings |-> {SettingsOk},
     makedirs |-> {TRUE},
     feeds    |-> [u \in EventUrls |->
                     IF u = "https://bigrock/activities"
                     THEN {Html(<<FeedItem("9:00 AM", name, desc)>>) :
                              name \in FeedNames, desc \in FeedDescs}
                     ELSE {Html(FeedPage)}],
     rosters  |-> {Html(RosterPage)},
     up       |-> {ImageUrls}]

\* the steps the clock advances by
ClockSteps == {EventSleep, ParticipantSleep}

TicksUsed(t) == (t \div ParticipantSleep) + ((t % ParticipantSleep) \div EventSleep)

(***************************************************************************)
(* The state of the process.                                               *)
(*   now               the wall clock, in seconds                          *)
(*   meta              the persisted freshness metadata: key -> last_scraped*)
(*   eventsFile        cache/<t>/events.json                               *)
(*   participantsFile  cache/<t>/participants.json                         *)
(*   disk              the image files that exist under static/images/boats*)
(*   th                the threads: main, event_loop, participant_loop     *)
(*   response          the Read API response being sent, if any            *)
(*   pass              history of the current pass of event_loop: the      *)
(*                     tournaments whose page fetch failed, those whose    *)
(*                     fetch succeeded, those whose snapshot it changed    *)
(* A file is [state, data, replaced, source]: state "absent", "ok" (data is *)
(* its JSON list) or "torn" (opened for writing and not yet dumped: a      *)
(* reader gets no JSON).  Two fields are history: replaced, the list the   *)
(* open truncated, and source, the items of the page its list was          *)
(* extracted from.                                                         *)
(***************************************************************************)
VARIABLES now, meta, eventsFile, participantsFile, disk, th, response, pass

vars == <<now, meta, eventsFile, participantsFile, disk, th, response, pass>>

Threads == {"main", "event_loop", "participant_loop"}

AbsentFile == [state |-> "absent", data |-> <<>>, replaced |-> <<>>, source |-> <<>>]

\* open(path, "w"): the file exists and is empty until the dump
OpenForWrite(file) == [file EXCEPT !.state = "torn", !.data = <<>>, !.replaced = file.data]

\* a mutant of DumpJson: the file was opened in append mode
DumpJson_Append(file, records) ==
    [file EXCEPT !.state = "ok", !.data = file.replaced \o records, !.replaced = <<>>]

\* json.dump(records, f) and the close of the file
DumpJson(file, records) ==
    [file EXCEPT !.state = "ok", !.data = records, !.replaced = <<>>]

NoJob == [kind |-> "", t |-> "", force |-> FALSE]

NoCache == [k \in {} |-> 0]

\* a thread outside any scrape call
Idle(pc, todo, wake) ==
    [pc |-> pc, todo |-> todo, wake |-> wake, job |-> NoJob, tournament |-> "",
     cache |-> NoCache, url |-> "", html |-> EmptyHtml, existing |-> <<>>,
     pending |-> <<>>, writing |-> FALSE]

NoResponse == [kind |-> "", t |-> "", path_ok |-> FALSE, body |-> <<>>]

NoPass == [failed |-> {}, fetched |-> {}, changed |-> {}]

Init ==
    /\ now = 0
    /\ meta = NoCache
    /\ eventsFile = [t \in Tournaments |-> AbsentFile]
    /\ participantsFile = [t \in Tournaments |-> AbsentFile]
    /\ disk = {DefaultImage}
    /\ th = [i \in Threads |-> IF i = "main" THEN Idle("directory", <<>>, 0)
                                ELSE Idle("idle", <<>>, 0)]
    /\ response = NoResponse
    /\ pass = NoPass

(***************************************************************************)
(* Helpers of the scrapes.                                                 *)
(***************************************************************************)
\* the names of the entries get_all_tournaments keeps, in document order
RECURSIVE KeptNames(_)
KeptNames(entries) ==
    IF entries = <<>> THEN <<>>
    ELSE IF Head(entries).object /\ "events" \in DOMAIN Head(entries).urls
    THEN <<Head(entries).name>> \o KeptNames(Tail(entries))
    ELSE KeptNames(Tail(entries))

\* get_all_tournaments: [] when the request or its JSON fails
get_all_tournaments(answer) == IF answer.ok THEN KeptNames(answer.entries) ELSE <<>>

\* the scrape calls of one pass of thread i over the directory, in order
Jobs(i, names) ==
    IF i = "main"
    THEN [k \in 1..(2 * Len(names)) |->
            IF k % 2 = 1
            THEN [kind |-> "participants", t |-> names[(k + 1) \div 2], force |-> TRUE]
            ELSE [kind |-> "events", t |-> names[k \div 2], force |-> TRUE]]
    ELSE IF i = "event_loop"
    THEN [k \in 1..Len(names) |-> [kind |-> "events", t |-> names[k], force |-> TRUE]]
    ELSE [k \in 1..Len(names) |-> [kind |-> "participants", t |-> names[k], force |-> TRUE]]

\* load_cache(): the whole metadata record
load_cache == meta

\* save_cache(cache): the whole metadata record is replaced
save_cache(cache) == cache

\* cache[key] = {"last_scraped": datetime.now().isoformat()}
SetLastScraped(cache, key, time) ==
    [k \in (DOMAIN cache) \cup {key} |-> IF k = key THEN time ELSE cache[k]]

\* is_cache_fresh(cache, key, ttl_minutes)
is_cache_fresh(cache, key, ttl) == key \in DOMAIN cache /\ now - cache[key] < ttl * 60

EventsKey(tournament) == "events_" \o tournament

ParticipantsKey(tournament) == tournament \o "_participants"

\* next((k for k in settings if test(k)), None), as an index; 0 for None
FirstEntry(entries, matching) ==
    IF \E k \in 1..Len(entries) : matching[k]
    THEN CHOOSE k \in 1..Len(entries) :
            /\ matching[k]
            /\ \A j \in 1..(k - 1) : ~matching[j]
    ELSE 0

\* the URL of kind the settings give for the entry at index k; "" when the
\* lookup raises or yields nothing
UrlOf(answer, k, kind) ==
    IF ~answer.ok \/ k = 0 THEN ""
    ELSE IF ~answer.entries[k].object \/ kind \notin DOMAIN answer.entries[k].urls THEN ""
    ELSE answer.entries[k].urls[kind]

\* events_url of scrape_events: the key is matched on normalized names
EventsUrl(answer, tournament) ==
    UrlOf(answer,
          FirstEntry(answer.entries,
                     [k \in 1..Len(answer.entries) |->
                         normalize_boat_name(answer.entries[k].name)
                             = normalize_boat_name(tournament)]),
          "events")

\* participants_url of scrape_participants: the key is matched on lowercase
ParticipantsUrl(answer, tournament) ==
    UrlOf(answer,
          FirstEntry(answer.entries,
                     [k \in 1..Len(answer.entries) |->
                         Lower(answer.entries[k].name) = Lower(tournament)]),
          "participants")

\* a mutant of NoHtml: the result of the fetch is not tested
NoHtml_Unchecked(html) == FALSE

\* if not html: "" is what a failed fetch returns
NoHtml(html) == ~html.ok

\* the for loop moves on: the scrape call of thread i has returned
Returned(i) == [th EXCEPT ![i] = Idle("for", Tail(th[i].todo), 0)]

\* an exception leaves the thread's function: the thread ends
Raised(i) == [th EXCEPT ![i] = Idle("dead", <<>>, 0)]

(***************************************************************************)
(* The threads.  pc of a thread:                                           *)
(*   "idle"       not started yet (the loops, before background_scheduler) *)
(*   "directory"  about to call get_all_tournaments                        *)
(*   "for"        in the for loop, between two scrape calls                *)
(*   "persist"    in a scrape, past the parse: the snapshot file is open   *)
(*                for writing (writing = TRUE) or is left as it is         *)
(*   "sleep"      in time.sleep                                            *)
(*   "serve"      in app.run (main only)                                   *)
(*   "dead"       ended by an exception                                    *)
(* Every action takes the world w its inputs are drawn from.               *)
(***************************************************************************)
\* for t in get_all_tournaments(): the directory request of one pass
GetAllTournaments(i, w) ==
    /\ th[i].pc = "directory"
    /\ \E answer \in w.settings :
         th' = [th EXCEPT ![i] = Idle("for", Jobs(i, get_all_tournaments(answer)), 0)]
    /\ pass' = IF i = "event_loop" THEN NoPass ELSE pass
    /\ response' = NoResponse
    /\ UNCHANGED <<now, meta, eventsFile, participantsFile, disk>>

\* scrape_events up to the open of events_file (lines 187-262)
ScrapeEventsBegin(i, w) ==
    /\ th[i].pc = "for"
    /\ th[i].todo # <<>>
    /\ Head(th[i].todo).kind = "events"
    /\ \E makedirs_ok \in w.makedirs, answer \in w.settings :
         LET job        == Head(th[i].todo)
             cache      == load_cache
             tournament == IF job.t # "" THEN job.t ELSE get_current_tournament
             events_url == EventsUrl(answer, tournament)
             roster     == participantsFile[tournament]
         IN
         IF ~makedirs_ok
         THEN \* get_cache_path raises before the try block
              /\ th' = Raised(i)
              /\ UNCHANGED <<eventsFile, pass>>
         ELSE IF ~job.force /\ is_cache_fresh(cache, EventsKey(tournament), EventTTL)
         THEN /\ th' = Returned(i)
              /\ UNCHANGED <<eventsFile, pass>>
         ELSE IF events_url = "" \/ roster.state = "torn"
         THEN \* the settings lookup or the roster's json.load raises: except, return []
              /\ th' = Returned(i)
              /\ UNCHANGED <<eventsFile, pass>>
         ELSE \E html \in w.feeds[events_url] :
              /\ eventsFile' = [eventsFile EXCEPT ![tournament] = OpenForWrite(@)]
              /\ th' = [th EXCEPT ![i] =
                          [@ EXCEPT !.pc = "persist", !.job = job, !.tournament = tournament,
                                    !.cache = cache, !.url = events_url, !.html = html,
                                    !.pending = ScrapedEvents(html.items,
                                                    ParticipantsByUid(roster.data)),
                                    !.writing = TRUE]]
              /\ pass' = IF i # "event_loop" THEN pass
                         ELSE IF html.ok
                         THEN [pass EXCEPT !.fetched = @ \cup {tournament}]
                         ELSE [pass EXCEPT !.failed = @ \cup {tournament}]
    /\ response' = NoResponse
    /\ UNCHANGED <<now, meta, participantsFile, disk>>

\* scrape_participants up to the open of participants_file (lines 71-171)
ScrapeParticipantsBegin(i, w) ==
    /\ th[i].pc = "for"
    /\ th[i].todo # <<>>
    /\ Head(th[i].todo).kind = "participants"
    /\ \E makedirs_ok \in w.makedirs, answer \in w.settings :
         LET job        == Head(th[i].todo)
             cache      == load_cache
             tournament == get_current_tournament
             participants_url == ParticipantsUrl(answer, tournament)
             existing   == ExistingParticipants(participantsFile[tournament])
         IN
         IF ~makedirs_ok
         THEN \* get_cache_path raises before the try block
              /\ th' = Raised(i)
              /\ UNCHANGED <<participantsFile, disk>>
         ELSE IF ~job.force /\ is_cache_fresh(cache, ParticipantsKey(tournament), ParticipantTTL)
         THEN /\ th' = Returned(i)
              /\ UNCHANGED <<participantsFile, disk>>
         ELSE IF participants_url = ""
         THEN \* no tournament or no URL in the settings: raise, except, return []
              /\ th' = Returned(i)
              /\ UNCHANGED <<participantsFile, disk>>
         ELSE \E html \in w.rosters, up \in w.up :
              LET tasks   == DownloadTasks(html.items, existing, disk)
                  updated == ScrapedParticipants(html.items, existing, disk, up)
              IN
              IF NoHtml(html)
              THEN \* no HTML: raise, except, return []
                   /\ th' = Returned(i)
                   /\ UNCHANGED <<participantsFile, disk>>
              ELSE /\ disk' = DiskAfterDownloads(disk, tasks, up)
                   /\ participantsFile' =
                         IF updated # existing
                         THEN [participantsFile EXCEPT ![tournament] = OpenForWrite(@)]
                         ELSE participantsFile
                   /\ th' = [th EXCEPT ![i] =
                               [@ EXCEPT !.pc = "persist", !.job = job,
                                         !.tournament = tournament, !.cache = cache,
                                         !.url = participants_url, !.html = html,
                                         !.existing = existing, !.pending = updated,
                                         !.writing = (updated # existing)]]
    /\ response' = NoResponse
    /\ UNCHANGED <<now, meta, eventsFile, pass>>

\* the snapshot files after the dump of thread i, if its scrape writes one
AfterDump(files, i) ==
    [files EXCEPT ![th[i].tournament] =
        [(IF th[i].writing THEN DumpJson(@, th[i].pending) ELSE @)
            EXCEPT !.source = th[i].html.items]]

\* the rest of a scrape: json.dump into the open file, cache[key] = now,
\* save_cache(cache), return (lines 171-179 and 262-267)
Persist(i) ==
    /\ th[i].pc = "persist"
    /\ IF th[i].job.kind = "events"
       THEN /\ eventsFile' = AfterDump(eventsFile, i)
            /\ meta' = save_cache(SetLastScraped(th[i].cache, EventsKey(th[i].tournament), now))
            /\ UNCHANGED participantsFile
       ELSE /\ participantsFile' = AfterDump(participantsFile, i)
            /\ meta' = save_cache(SetLastScraped(th[i].cache,
                                                 ParticipantsKey(th[i].tournament), now))
            /\ UNCHANGED eventsFile
    /\ pass' = IF i = "event_loop" /\ th[i].pending # eventsFile[th[i].tournament].replaced
               THEN [pass EXCEPT !.changed = @ \cup {th[i].tournament}]
               ELSE pass
    /\ th' = Returned(i)
    /\ response' = NoResponse
    /\ UNCHANGED <<now, disk>>

\* scrape_all_now returns: background_scheduler starts the loops, app.run serves
StartServing ==
    /\ th["main"].pc = "for"
    /\ th["main"].todo = <<>>
    /\ th' = [i \in Threads |-> IF i = "main" THEN Idle("serve", <<>>, 0)
                                 ELSE Idle("directory", <<>>, 0)]
    /\ UNCHANGED <<now, meta, eventsFile, participantsFile, disk, response, pass>>

\* the for loop of a background loop is over: time.sleep
Sleep(i) ==
    /\ i # "main"
    /\ th[i].pc = "for"
    /\ th[i].todo = <<>>
    /\ th' = [th EXCEPT ![i] =
                Idle("sleep", <<>>,
                     now + (IF i = "event_loop" THEN EventSleep ELSE ParticipantSleep))]
    /\ response' = NoResponse
    /\ UNCHANGED <<now, meta, eventsFile, participantsFile, disk, pass>>

\* time.sleep returns: while True starts the next pass
Wake(i) ==
    /\ th[i].pc = "sleep"
    /\ now >= th[i].wake
    /\ th' = [th EXCEPT ![i] = Idle("directory", <<>>, 0)]
    /\ response' = NoResponse
    /\ UNCHANGED <<now, meta, eventsFile, participantsFile, disk, pass>>

\* time passes; the clock has the grain of the sleeps, so that it moves only
\* while no thread is inside a pass
Tick ==
    /\ TicksUsed(now) < MaxTicks
    /\ \A i \in Threads : th[i].pc \in {"sleep", "serve", "dead"}
    /\ \E d \in ClockSteps : now' = now + d
    /\ response' = NoResponse
    /\ UNCHANGED <<meta, eventsFile, participantsFile, disk, th, pass>>

\* a mutant of ReadSnapshot: the handler has no except clause, the framework
\* answers the exception
ReadSnapshot_NoExcept(file) ==
    IF file.state = "ok" THEN file.data ELSE <<"500 Internal Server Error">>

\* the body the Read API answers for a snapshot file: [] when open or
\* json.load raises
ReadSnapshot(file) == IF file.state = "ok" THEN file.data ELSE <<>>

\* the response of a Read API handler: get_cache_path and the read are inside
\* its try; path_ok records whether get_cache_path returned
Answer(kind, tournament, path_ok, file) ==
    [kind |-> kind, t |-> tournament, path_ok |-> path_ok,
     body |-> IF path_ok THEN ReadSnapshot(file) ELSE <<>>]

\* GET /api/<tournament>/participants
api_participants(tournament, w) ==
    /\ th["main"].pc = "serve"
    /\ \E makedirs_ok \in w.makedirs :
         response' = Answer("participants", tournament, makedirs_ok,
                            participantsFile[tournament])
    /\ UNCHANGED <<now, meta, eventsFile, participantsFile, disk, th, pass>>

\* GET /api/<tournament>/events
api_events(tournament, w) ==
    /\ th["main"].pc = "serve"
    /\ \E makedirs_ok \in w.makedirs :
         response' = Answer("events", tournament, makedirs_ok, eventsFile[tournament])
    /\ UNCHANGED <<now, meta, eventsFile, participantsFile, disk, th, pass>>

\* the whole process in the small world
Next ==
    \/ \E i \in Threads : GetAllTournaments(i, SmallWorld)
    \/ \E i \in Threads : ScrapeEventsBegin(i, SmallWorld)
    \/ \E i \in Threads : ScrapeParticipantsBegin(i, SmallWorld)
    \/ \E i \in Threads : Persist(i)
    \/ StartServing
    \/ \E i \in Threads : Sleep(i)
    \/ \E i \in Threads : Wake(i)
    \/ Tick
    \/ \E t \in Tournaments : api_participants(t, ServedWorld)
    \/ \E t \in Tournaments : api_events(t, ServedWorld)

Spec == Init /\ [][Next]_vars

\* the initial scrape in StartupWorld, then the first pass of event_loop in
\* BatchWorld: participant_loop is not scheduled, no request arrives, no time
\* passes
NextBatch ==
    \/ GetAllTournaments("main", StartupWorld)
    \/ ScrapeParticipantsBegin("main", StartupWorld)
    \/ ScrapeEventsBegin("main", StartupWorld)
    \/ GetAllTournaments("event_loop", BatchWorld)
    \/ ScrapeEventsBegin("event_loop", BatchWorld)
    \/ \E i \in {"main", "event_loop"} : Persist(i)
    \/ StartServing
    \/ Sleep("event_loop")

SpecBatch == Init /\ [][NextBatch]_vars

\* the initial scrape, then the first pass of participant_loop and the Read
\* API, in RosterWorld: event_loop is not scheduled, no time passes
NextRoster ==
    \/ \E i \in {"main", "participant_loop"} : GetAllTournaments(i, RosterWorld)
    \/ \E i \in {"main", "participant_loop"} : ScrapeParticipantsBegin(i, RosterWorld)
    \/ ScrapeEventsBegin("main", RosterWorld)
    \/ \E i \in {"main", "participant_loop"} : Persist(i)
    \/ StartServing
    \/ Sleep("participant_loop")
    \/ \E t \in Tournaments : api_participants(t, ReadWorld)
    \/ \E t \in Tournaments : api_events(t, ReadWorld)

SpecRoster == Init /\ [][NextRoster]_vars

\* the initial scrape in WordingWorld
NextWording ==
    \/ GetAllTournaments("main", WordingWorld)
    \/ ScrapeParticipantsBegin("main", WordingWorld)
    \/ ScrapeEventsBegin("main", WordingWorld)
    \/ Persist("main")
    \/ StartServing

SpecWording == Init /\ [][NextWording]_vars

(***************************************************************************)
(* Vocabulary of the properties.                                           *)
(***************************************************************************)
BackgroundLoops == {"event_loop", "participant_loop"}

\* the metadata key of the scrape thread i is in
KeyOf(i) ==
    IF th[i].job.kind = "events"
    THEN EventsKey(th[i].tournament)
    ELSE ParticipantsKey(th[i].tournament)

\* last_scraped of a key in a metadata record, as a set: empty when absent
LastScraped(record, key) == IF key \in DOMAIN record THEN {record[key]} ELSE {}

\* this step is the end of the scrape thread i is in
PersistStep(i) == th[i].pc = "persist" /\ th'[i].pc # "persist"

\* this step is thread i taking the next scrape call of its for loop
BeginStep(i) == th[i].pc = "for" /\ th[i].todo # <<>> /\ th'[i] # th[i]

SnapshotFile(kind, t) == IF kind = "events" THEN eventsFile[t] ELSE participantsFile[t]

\* the feed items of a page that yield an event: all three tags, a time that parses
Extractable(item) == ItemTags \subseteq item.tags /\ TimeParses(RawTime(item.time))

\* the (uid, event_type, timestamp) of an extractable item
ItemTriple(item) ==
    <<normalize_boat_name(item.name), ClassifyEvent(item.desc), ParseTime(RawTime(item.time))>>

EventTriple(e) == <<e.uid, e.event, e.timestamp>>

\* the cards of a page that yield a participant, whatever the order
BoatCard(card) == "name" \in card.tags /\ ~Contains(card.name, ",")

\* C1 (as claimed): the scrape of a (tournament, kind) changes its last_scraped
\* only if it fetched its page; a scrape that returns without persisting
\* leaves the metadata alone.
C1_LastScrapedOnlyAfterSuccess ==
    [][\A i \in Threads :
          /\ PersistStep(i) /\ ~th[i].html.ok
                => LastScraped(meta', KeyOf(i)) = LastScraped(meta, KeyOf(i))
          /\ BeginStep(i) => meta' = meta]_vars

\* C2 (as claimed): at the end of a pass of event_loop in which one page
\* fetch failed and another succeeded, the snapshot of the tournament whose
\* fetch failed is the one it had before the pass, and the snapshot of the
\* other is a complete list.
C2_FailureIsolation ==
    th["event_loop"].pc = "sleep" =>
        \A a \in pass.failed, b \in pass.fetched :
            a \notin pass.changed /\ eventsFile[b].state = "ok"

\* C3 (as claimed): no background loop ever ends.
C3_LoopsNeverEnd == \A i \in BackgroundLoops : th[i].pc # "dead"

\* C4 (as claimed): the body of every Read API response is a complete batch
\* of the file it reads: the list the file holds or, while a scrape has the
\* file open, the list it held before or the list being written.
C4_NoPartialRead ==
    [][response' # NoResponse /\ response'.path_ok =>
          LET file == SnapshotFile(response'.kind, response'.t)
          IN  response'.body \in
                 IF file.state = "torn"
                 THEN {file.replaced} \cup
                      {th[i].pending : i \in {j \in Threads :
                            /\ th[j].pc = "persist"
                            /\ th[j].job.kind = response'.kind
                            /\ th[j].tournament = response'.t}}
                 ELSE {file.data}]_vars

\* C5 (as claimed): a background loop that takes up a (tournament, kind)
\* whose last_scraped is younger than the TTL of the kind starts no scrape of
\* it: no page is fetched, no snapshot is opened, the metadata is not written.
C5_FreshnessGate ==
    [][\A i \in BackgroundLoops :
          (/\ BeginStep(i)
           /\ IF Head(th[i].todo).kind = "events"
              THEN is_cache_fresh(meta, EventsKey(Head(th[i].todo).t), EventTTL)
              ELSE is_cache_fresh(meta, ParticipantsKey(get_current_tournament),
                                  ParticipantTTL))
          => /\ th'[i].pc # "persist"
             /\ UNCHANGED <<eventsFile, participantsFile, meta>>]_vars

\* C6 (as claimed): the participant scrape that participant_loop runs for a
\* directory tournament T reads T's participants URL and writes T's snapshot.
C6_ParticipantLoopScrapesT ==
    th["participant_loop"].pc = "persist" =>
        /\ th["participant_loop"].tournament = th["participant_loop"].job.t
        /\ th["participant_loop"].url =
              ParticipantsUrl(SettingsOk, th["participant_loop"].job.t)

\* C7 (as claimed): while any thread is inside a scrape, the Read API is
\* being served.
C7_ReadsNeverBlocked ==
    \A i \in Threads : th[i].pc = "persist" => th["main"].pc = "serve"

\* C8: the event list scrape_events persists, and the one it is about to
\* dump, has no two elements with equal (uid, event_type, timestamp).
C8_DedupInvariant ==
    /\ \A t \in Tournaments :
          \A k, l \in 1..Len(eventsFile[t].data) :
              k # l => EventTriple(eventsFile[t].data[k]) # EventTriple(eventsFile[t].data[l])
    /\ \A i \in Threads :
          th[i].job.kind = "events" =>
              \A k, l \in 1..Len(th[i].pending) :
                  k # l => EventTriple(th[i].pending[k]) # EventTriple(th[i].pending[l])

\* C8 witness: a persisted list whose page held the same catch twice.
C8_Witness ==
    \E t \in Tournaments :
        /\ eventsFile[t].state = "ok"
        /\ eventsFile[t].data # <<>>
        /\ \E k, l \in 1..Len(eventsFile[t].source) :
              /\ k < l
              /\ Extractable(eventsFile[t].source[k])
              /\ Extractable(eventsFile[t].source[l])
              /\ ItemTriple(eventsFile[t].source[k]) = ItemTriple(eventsFile[t].source[l])

\* C9: the persisted event list of every tournament is non-decreasing in
\* timestamp.
C9_OrderingInvariant ==
    \A t \in Tournaments :
        \A k \in 1..(Len(eventsFile[t].data) - 1) :
            ~StrLess(eventsFile[t].data[k + 1].timestamp, eventsFile[t].data[k].timestamp)

\* C9 witness: a persisted list whose page showed a later catch before an
\* earlier one.
C9_Witness ==
    \E t \in Tournaments :
        /\ eventsFile[t].state = "ok"
        /\ Len(eventsFile[t].data) >= 2
        /\ \E k, l \in 1..Len(eventsFile[t].source) :
              /\ k < l
              /\ Extractable(eventsFile[t].source[k])
              /\ Extractable(eventsFile[t].source[l])
              /\ StrLess(ParseTime(RawTime(eventsFile[t].source[l].time)),
                         ParseTime(RawTime(eventsFile[t].source[k].time)))

\* the events of a snapshot are exactly those of the items of the page
EventsOfPage(data, page) ==
    /\ \A k \in 1..Len(data) :
          \E n \in 1..Len(page) :
              /\ Extractable(page[n])
              /\ ItemTriple(page[n]) = EventTriple(data[k])
              /\ page[n].desc = data[k].details
    /\ \A n \in 1..Len(page) :
          Extractable(page[n]) =>
              \E k \in 1..Len(data) : EventTriple(data[k]) = ItemTriple(page[n])
    /\ Len(data) <= Len(page)

\* the participants of a snapshot are exactly the boats of the cards of the
\* page, one per uid, each with its own image or the default one
ParticipantsOfPage(data, page) ==
    /\ \A k \in 1..Len(data) :
          /\ \E n \in 1..Len(page) :
                /\ BoatCard(page[n])
                /\ normalize_boat_name(page[n].name) = data[k].uid
                /\ page[n].name = data[k].boat
                /\ data[k].type = (IF "type" \in page[n].tags THEN page[n].type ELSE "")
          /\ data[k].image_path \in {DefaultImage, ImagePathOf(data[k].uid)}
    /\ \A n \in 1..Len(page) :
          BoatCard(page[n]) =>
              \E k \in 1..Len(data) : data[k].uid = normalize_boat_name(page[n].name)
    /\ \A k, l \in 1..Len(data) : k # l => data[k].uid # data[l].uid

\* C10: a persisted snapshot holds exactly the records of the page of its
\* last successful scrape, events and participants alike: nothing of the
\* snapshot it replaced is left.
C10_BatchReplace ==
    \A t \in Tournaments :
        /\ eventsFile[t].state = "ok" =>
              EventsOfPage(eventsFile[t].data, eventsFile[t].source)
        /\ participantsFile[t].state = "ok" =>
              ParticipantsOfPage(participantsFile[t].data, participantsFile[t].source)

\* C10 witness: event_loop has replaced a non-empty event snapshot by the
\* list of a page that has no event, over a roster that was itself replaced.
C10_Witness ==
    /\ th["event_loop"].pc = "sleep"
    /\ get_current_tournament \in pass.fetched \cap pass.changed
    /\ eventsFile[get_current_tournament].state = "ok"
    /\ eventsFile[get_current_tournament].data = <<>>
    /\ participantsFile[get_current_tournament].state = "ok"
    /\ Len(participantsFile[get_current_tournament].data) = 1

\* C11: every Read API request is answered with a list: the persisted
\* snapshot when the file can be read, the empty list when the file was never
\* written, is open for writing or is out of reach; and the request changes
\* no snapshot and no last_scraped.
C11_ReadNeverFails ==
    [][response' # NoResponse =>
          LET file == SnapshotFile(response'.kind, response'.t)
          IN  /\ response'.body =
                    (IF response'.path_ok /\ file.state = "ok" THEN file.data ELSE <<>>)
              /\ UNCHANGED <<eventsFile, participantsFile, meta>>]_vars

\* C11 witness: a read of a snapshot that was never written, answered [],
\* while another tournament has a snapshot.
C11_Witness ==
    /\ response.kind = "participants"
    /\ response.t = "KWLA"
    /\ response.path_ok
    /\ response.body = <<>>
    /\ participantsFile["KWLA"].state = "absent"
    /\ participantsFile["Big Rock"].state = "ok"
    /\ participantsFile["Big Rock"].data # <<>>

\* C12: in the list scrape_events is about to persist for tournament T, an
\* event whose uid is the uid of a participant of T's participant snapshot
\* has that participant's boat name; any other event has the name of a feed
\* item it was extracted from.
C12_CrossReference ==
    \A i \in Threads :
        th[i].pc = "persist" /\ th[i].job.kind = "events" =>
            LET roster == participantsFile[th[i].tournament].data
                items  == th[i].html.items
            IN  \A k \in 1..Len(th[i].pending) :
                    LET e == th[i].pending[k]
                    IN  IF HasUid(roster, e.uid)
                        THEN e.boat = GetByUid(roster, e.uid).boat
                        ELSE \E n \in 1..Len(items) :
                                /\ Extractable(items[n])
                                /\ ItemTriple(items[n]) = EventTriple(e)
                                /\ items[n].name = e.boat

\* C12 witness: an event about to be persisted under the roster's spelling,
\* which no feed item of its catch has.
C12_Witness ==
    \E i \in Threads :
        /\ th[i].pc = "persist"
        /\ th[i].job.kind = "events"
        /\ \E k \in 1..Len(th[i].pending) :
              LET e == th[i].pending[k]
              IN  /\ HasUid(participantsFile[th[i].tournament].data, e.uid)
                  /\ \A n \in 1..Len(th[i].html.items) :
                        th[i].html.items[n].name # e.boat

\* C13 (as claimed): the type of every persisted event is the first match of
\* its description, case-insensitively, in the rule list: "released" is
\* Released; "boated" or "headed to scales" is Boated; "pulled hook" is
\* Pulled Hook; "wrong species" is Wrong Species; anything else is Other.
C13_ClassificationRules ==
    \A t \in Tournaments :
        \A k \in 1..Len(eventsFile[t].data) :
            LET e == eventsFile[t].data[k]
                d == Lower(e.details)
            IN  e.event =
                  IF Contains(d, "released") THEN "Released"
                  ELSE IF Contains(d, "boated") \/ Contains(d, "headed to scales") THEN "Boated"
                  ELSE IF Contains(d, "pulled hook") THEN "Pulled Hook"
                  ELSE IF Contains(d, "wrong species") THEN "Wrong Species"
                  ELSE "Other"

\* C14 (as claimed): the uid of every persisted event is a fixed point of
\* normalize_boat_name, and an event of a feed item named "Reel Deal",
\* "REEL-DEAL" or "Reel Deal's" has the uid of "Reel Deal".
C14_NormalizeIdempotent ==
    \A t \in Tournaments :
        \A k \in 1..Len(eventsFile[t].data) :
            LET e == eventsFile[t].data[k]
            IN  /\ normalize_boat_name(e.uid) = e.uid
                /\ \A n \in 1..Len(eventsFile[t].source) :
                      LET item == eventsFile[t].source[n]
                      IN  (/\ Extractable(item)
                           /\ item.name \in {"Reel Deal", "REEL-DEAL", "Reel Deal's"}
                           /\ item.desc = e.details
                           /\ ParseTime(RawTime(item.time)) = e.timestamp)
                          => e.uid = normalize_boat_name("Reel Deal")

\* C15 (as claimed): the tournaments a pass goes through after reading the
\* directory are the entries that are objects with a participants URL or an
\* events URL, or none when the directory cannot be read.
C15_DirectoryFilter ==
    [][LET Claimed(answer) ==
               IF ~answer.ok THEN {}
               ELSE {answer.entries[k].name :
                        k \in {j \in 1..Len(answer.entries) :
                                 /\ answer.entries[j].object
                                 /\ \/ "participants" \in DOMAIN answer.entries[j].urls
                                    \/ "events" \in DOMAIN answer.entries[j].urls}}
       IN  \A i \in Threads :
               th[i].pc = "directory" /\ th'[i].pc = "for" =>
                   {th'[i].todo[k].t : k \in 1..Len(th'[i].todo)}
                       \in {Claimed(answer) : answer \in RosterWorld.settings}]_vars

\* C16 (as claimed): a participant scrape requests the image of no uid whose
\* local image file exists when the batch is processed.
C16_ImageFetchIdempotent ==
    [][\A i \in Threads :
          (/\ BeginStep(i)
           /\ th'[i].pc = "persist"
           /\ th'[i].job.kind = "participants")
          => LET tasks == DownloadTasks(th'[i].html.items, th'[i].existing, disk)
             IN  \A k \in 1..Len(tasks) : ImagePathOf(tasks[k].uid) \notin disk]_vars

\* C17: in a participant batch, every queued download leaves its own
\* participant with its own image path if it wrote the file and with the
\* default path if it failed, whatever the other downloads did; the batch is
\* dumped as it is, and no persisted participant has an empty image_path.
C17_DownloadFailureContained ==
    [][/\ \A i \in Threads :
             (/\ BeginStep(i)
              /\ th'[i].pc = "persist"
              /\ th'[i].job.kind = "participants")
             => LET tasks == DownloadTasks(th'[i].html.items, th'[i].existing, disk)
                    batch == th'[i].pending
                IN  /\ \A k \in 1..Len(batch) : batch[k].image_path # ""
                    /\ \A k \in 1..Len(tasks) :
                          LET p   == GetByUid(batch, tasks[k].uid)
                              own == ImagePathOf(tasks[k].uid)
                          IN  /\ p.image_path \in {own, DefaultImage}
                              /\ own \notin disk' => p.image_path = DefaultImage
                              /\ own \in disk' \ disk => p.image_path = own
       /\ \A i \in Threads :
             (PersistStep(i) /\ th[i].job.kind = "participants" /\ th[i].writing)
             => /\ participantsFile'[th[i].tournament].state = "ok"
                /\ participantsFile'[th[i].tournament].data = th[i].pending
       /\ \A t \in Tournaments :
             \A k \in 1..Len(participantsFile'[t].data) :
                 participantsFile'[t].data[k].image_path # ""]_vars

\* C17 witness: a first batch of two boats with a picture each, about to be
\* persisted, in which one download failed and the other wrote its file.
C17_Witness ==
    \E i \in Threads :
        /\ th[i].pc = "persist"
        /\ th[i].job.kind = "participants"
        /\ th[i].existing = <<>>
        /\ \A n \in 1..Len(th[i].html.items) : th[i].html.items[n].src # ""
        /\ \E k, l \in 1..Len(th[i].pending) :
              /\ th[i].pending[k].image_path = DefaultImage
              /\ th[i].pending[l].image_path = ImagePathOf(th[i].pending[l].uid)
              /\ ImagePathOf(th[i].pending[l].uid) \in disk
              /\ ImagePathOf(th[i].pending[k].uid) \notin disk

\* C18: of the feed items of a page that have one dedup key, the persisted
\* list holds one event, with the detail text of the first of them in page
\* order and, when the roster gives the uid no name, its boat name.
C18_FirstOccurrenceSurvives ==
    /\ \A t \in Tournaments :
          eventsFile[t].state = "ok" =>
              \A n \in 1..Len(eventsFile[t].source) :
                  LET page == eventsFile[t].source
                      data == eventsFile[t].data
                  IN  (/\ Extractable(page[n])
                       /\ \A m \in 1..(n - 1) :
                             Extractable(page[m]) => ItemTriple(page[m]) # ItemTriple(page[n]))
                      => /\ Cardinality({k \in 1..Len(data) :
                                           EventTriple(data[k]) = ItemTriple(page[n])}) = 1
                         /\ \A k \in 1..Len(data) :
                               EventTriple(data[k]) = ItemTriple(page[n])
                                   => data[k].details = page[n].desc
    /\ \A i \in Threads :
          th[i].pc = "persist" /\ th[i].job.kind = "events" =>
              \A n \in 1..Len(th[i].html.items) :
                  LET page == th[i].html.items
                      data == th[i].pending
                  IN  (/\ Extractable(page[n])
                       /\ \A m \in 1..(n - 1) :
                             Extractable(page[m]) => ItemTriple(page[m]) # ItemTriple(page[n])
                       /\ ~HasUid(participantsFile[th[i].tournament].data,
                                  normalize_boat_name(page[n].name)))
                      => \A k \in 1..Len(data) :
                            EventTriple(data[k]) = ItemTriple(page[n])
                                => data[k].boat = page[n].name /\ data[k].details = page[n].desc

\* C18 witness: a list about to be persisted from a page that shows one catch
\* twice, under two names and two descriptions, for a boat the roster lacks,
\* after an earlier catch further down the page.
C18_Witness ==
    \E i \in Threads :
        /\ th[i].pc = "persist"
        /\ th[i].job.kind = "events"
        /\ Len(th[i].pending) >= 2
        /\ \E m, n \in 1..Len(th[i].html.items) :
              LET page == th[i].html.items
              IN  /\ m < n
                  /\ Extractable(page[m])
                  /\ Extractable(page[n])
                  /\ ItemTriple(page[m]) = ItemTriple(page[n])
                  /\ page[m].name # page[n].name
                  /\ page[m].desc # page[n].desc
                  /\ ~HasUid(participantsFile[th[i].tournament].data,
                             normalize_boat_name(page[m].name))

\* C19: a call of scrape_participants whose settings request, settings lookup
\* or page fetch fails goes no further: it returns to its caller's loop, and
\* the participant snapshots and the metadata are what they were before the
\* call.
C19_FailedParticipantScrape ==
    [][\A i \in Threads :
          (BeginStep(i) /\ Head(th[i].todo).kind = "participants")
          => /\ th'[i].pc = "persist" => th'[i].html.ok /\ th'[i].url # ""
             /\ th'[i].pc # "persist"
                   => /\ th'[i].pc = "for"
                      /\ th'[i].todo = Tail(th[i].todo)
                      /\ UNCHANGED <<participantsFile, meta>>]_vars

\* C19 witness: the initial scrape has gone past the participants of the
\* current tournament without a snapshot or a last_scraped for them, and has
\* persisted its events.
C19_Witness ==
    /\ th["main"].pc = "for"
    /\ eventsFile[get_current_tournament].state = "ok"
    /\ participantsFile[get_current_tournament].state = "absent"
    /\ EventsKey(get_current_tournament) \in DOMAIN meta
    /\ ParticipantsKey(get_current_tournament) \notin DOMAIN meta

\* C20 (as claimed): no step removes a last_scraped entry from the metadata
\* or replaces it by an older value.
C20_NoLostUpdate ==
    [][\A k \in DOMAIN meta : k \in DOMAIN meta' /\ meta'[k] >= meta[k]]_vars

=============================================================================
